---- MODULE Spec2Model ----
(***************************************************************************)
(* Model of main_streamlit.py: the brochure generator's scraping,          *)
(* link-classification, aggregation and streaming pipeline.                *)
(*                                                                         *)
(* Text is modelled structurally so that the string operations of the      *)
(* code are computed, not assumed:                                         *)
(*   - a URL / href string is a sequence of tokens ("https:", "//",        *)
(*     a host, "/", a path segment, "#", ...); the empty string is <<>>;   *)
(*   - a category (link type) is a sequence of characters;                 *)
(*   - page titles, body strings and streamed chunks are atomic strings.   *)
(***************************************************************************)
EXTENDS Integers, Sequences, FiniteSets, TLC

VARIABLES
    pc,              \* position of run_app / get_all_details
    company_name,    \* st.text_input "Company Name"
    url,             \* st.text_input "Company Website URL"
    sink,            \* the st.info / warning / error / success calls, in order
    netlog,          \* calls made to requests.get and to the Gemini API, in order
    raised,          \* the exception that left the script unhandled, or "none"
    resp,            \* outcome of the most recent requests.get
    site,            \* the most recently constructed Website object
    response,        \* outcome of model.generate_content in get_relevant_links
    relevant_links,  \* value returned by get_relevant_links
    idx,             \* position of the for loop over relevant_links
    all_text,        \* the aggregated document, one record per START/END block
    gen,             \* state of the stream_brochure generator object
    stream,          \* what the Gemini stream will deliver
    pos,             \* number of chunks pulled from the Gemini stream
    yielded          \* fragments the generator has yielded so far

vars == <<pc, company_name, url, sink, netlog, raised, resp, site, response,
          relevant_links, idx, all_text, gen, stream, pos, yielded>>

-----------------------------------------------------------------------------
(* Bounds of the model *)

MaxNodes == 2      \* elements in a fetched page
MaxCands == 2      \* entries in the "links" list the classifier returns
MaxChunks == 2     \* chunks the Gemini stream delivers

-----------------------------------------------------------------------------
(* Generic helpers *)

RECURSIVE SeqsUpTo(_, _)
SeqsUpTo(S, n) ==
    IF n = 0 THEN {<<>>}
    ELSE LET shorter == SeqsUpTo(S, n - 1)
         IN  shorter \cup {Append(s, x) : s \in {t \in shorter : Len(t) = n - 1}, x \in S}

RECURSIVE Filter(_, _)
\* the elements s[i] with keep[i], in order (keep is a sequence of BOOLEAN)
Filter(s, keep) ==
    IF s = <<>> THEN <<>>
    ELSE (IF Head(keep) THEN <<Head(s)>> ELSE <<>>) \o Filter(Tail(s), Tail(keep))

Map(s, F(_)) == [i \in 1..Len(s) |-> F(s[i])]

-----------------------------------------------------------------------------
(* URL strings: urllib.parse *)

SchemeTokens == {"https:", "mailto:", "tel:"}
HostTokens == {"acme.test", "other.test"}
UsesRelative == {"", "https:"}

IndexOfHash(s) ==
    IF \E i \in 1..Len(s) : s[i] = "#"
    THEN CHOOSE i \in 1..Len(s) : s[i] = "#" /\ \A j \in 1..(i - 1) : s[j] # "#"
    ELSE 0

\* urlparse(s, scheme=default): scheme, netloc, path and fragment of a URL string
urlparse(s, default) ==
    LET hasScheme == Len(s) >= 1 /\ s[1] \in SchemeTokens
        scheme == IF hasScheme THEN s[1] ELSE default
        r1 == IF hasScheme THEN Tail(s) ELSE s
        hasSlashes == Len(r1) >= 1 /\ r1[1] = "//"
        hasHost == hasSlashes /\ Len(r1) >= 2 /\ r1[2] \in HostTokens
        netloc == IF hasHost THEN r1[2] ELSE ""
        r2 == IF hasHost THEN SubSeq(r1, 3, Len(r1))
              ELSE IF hasSlashes THEN Tail(r1) ELSE r1
        h == IndexOfHash(r2)
    IN  [scheme |-> scheme,
         netloc |-> netloc,
         path |-> IF h = 0 THEN r2 ELSE SubSeq(r2, 1, h - 1),
         fragment |-> IF h = 0 THEN <<>> ELSE SubSeq(r2, h + 1, Len(r2))]

urlunparse(p) ==
    (IF p.scheme # "" THEN <<p.scheme>> ELSE <<>>)
    \o (IF p.netloc # "" THEN <<"//", p.netloc>> ELSE <<>>)
    \o p.path
    \o (IF p.fragment # <<>> THEN <<"#">> \o p.fragment ELSE <<>>)

\* the directory of a base path: its last segment and trailing slash removed
DirOf(path) ==
    LET noLeaf == IF Len(path) > 0 /\ path[Len(path)] # "/"
                  THEN SubSeq(path, 1, Len(path) - 1) ELSE path
    IN  IF Len(noLeaf) > 0 /\ noLeaf[Len(noLeaf)] = "/"
        THEN SubSeq(noLeaf, 1, Len(noLeaf) - 1) ELSE noLeaf

\* urljoin(base, ref)
urljoin(base, ref) ==
    IF base = <<>> THEN ref
    ELSE IF ref = <<>> THEN base
    ELSE LET b == urlparse(base, "")
             u == urlparse(ref, b.scheme)
         IN  IF u.scheme # b.scheme \/ u.scheme \notin UsesRelative THEN ref
             ELSE IF u.netloc # "" THEN urlunparse(u)
             ELSE IF u.path = <<>>
                  THEN urlunparse([u EXCEPT !.netloc = b.netloc, !.path = b.path])
             ELSE IF u.path[1] = "/"
                  THEN urlunparse([u EXCEPT !.netloc = b.netloc])
             ELSE urlunparse([u EXCEPT !.netloc = b.netloc,
                                       !.path = DirOf(b.path) \o <<"/">> \o u.path])

\* all([parsed_url.scheme, parsed_url.netloc])
HasSchemeAndHost(s) ==
    LET p == urlparse(s, "") IN p.scheme # "" /\ p.netloc # ""

-----------------------------------------------------------------------------
(* Pages and HTTP *)

DefaultTitle == "No title found"
PyNone == "<None>"

Irrelevant == {"script", "style", "img", "input", "nav", "footer", "header"}

NoHref == [has |-> FALSE, v |-> <<>>]
Href(s) == [has |-> TRUE, v |-> s]

\* An element of the page: its tag, the tag of the element that encloses it,
\* its own text, and its href attribute.
Node(tag, within, text, href) ==
    [tag |-> tag, within |-> within, text |-> text, href |-> href]

HrefValues ==
    { <<>>,
      <<"#", "top">>,
      <<"mailto:", "hi@acme.test">>,
      <<"tel:", "+1555">>,
      <<"/", "about">>,
      <<"careers">>,
      <<"https:", "//", "other.test", "/", "jobs">> }

AnchorNodes ==
    {Node("a", w, "link", h) : w \in {"div", "nav"}, h \in {NoHref} \cup {Href(v) : v \in HrefValues}}

TextNodes ==
    { Node("p", "div", "Hello", NoHref),
      Node("p", "div", " ", NoHref),
      Node("script", "div", "x()", NoHref) }

Titles == { [k |-> "absent", v |-> ""], [k |-> "nostring", v |-> ""], [k |-> "str", v |-> "Acme Inc"] }

Pages ==
    [title : Titles, hasBody : BOOLEAN, nodes : SeqsUpTo(AnchorNodes \cup TextNodes, MaxNodes)]

EmptyPage == [title |-> [k |-> "absent", v |-> ""], hasBody |-> FALSE, nodes |-> <<>>]

RequestErrors == {"ConnectionError", "Timeout", "HTTPError"}

NoResp == [k |-> "none", err |-> "", page |-> EmptyPage]
HttpError(e) == [k |-> "error", err |-> e, page |-> EmptyPage]
HttpOk(p) == [k |-> "ok", err |-> "", page |-> p]

\* requests.get(u) raises before any I/O unless u has an http(s) scheme and a host
RequestsRejects(u) ==
    LET p == urlparse(u, "") IN p.scheme # "https:" \/ p.netloc = ""

\* what requests.get(u) + raise_for_status can produce
HttpOutcomes(u, errs, pages) ==
    IF RequestsRejects(u) THEN {HttpError("MissingSchema")}
    ELSE {HttpError(e) : e \in errs} \cup {HttpOk(p) : p \in pages}

-----------------------------------------------------------------------------
(* class Website *)

Msg(level, text, arg) == [level |-> level, text |-> text, arg |-> arg]

NetOp(op, u) == [op |-> op, url |-> u]

\* soup.body([...]) + decompose(): the elements left in the tree
Decomposed(page) ==
    IF page.hasBody
    THEN Filter(page.nodes,
                [i \in 1..Len(page.nodes) |->
                    page.nodes[i].tag \notin Irrelevant /\ page.nodes[i].within \notin Irrelevant])
    ELSE page.nodes

\* str.strip() of a text node
Strip(t) == IF t = " " THEN "" ELSE t

\* soup.body.get_text(separator="\n", strip=True): the non-empty stripped strings
BodyText(page) ==
    IF page.hasBody
    THEN LET kept == Decomposed(page)
         IN  Map(Filter(kept, [i \in 1..Len(kept) |-> Strip(kept[i].text) # ""]),
                 LAMBDA n : Strip(n.text))
    ELSE <<>>

\* soup.title.string if soup.title else "No title found"
PageTitle(page) ==
    CASE page.title.k = "absent" -> DefaultTitle
      [] page.title.k = "nostring" -> PyNone
      [] OTHER -> page.title.v

\* link.startswith(('#', 'mailto:', 'tel:'))
StartsWithExcluded(h) == Len(h) > 0 /\ h[1] \in {"#", "mailto:", "tel:"}

\* [link.get('href') for link in soup.find_all('a')]
PageLinks(page) ==
    LET kept == Decomposed(page)
    IN  Map(Filter(kept, [i \in 1..Len(kept) |-> kept[i].tag = "a"]), LAMBDA n : n.href)

\* [urljoin(self.url, link) for link in page_links if link and not link.startswith(...)]
ExtractLinks(u, page) ==
    LET hrefs == PageLinks(page)
    IN  Map(Filter(hrefs, [i \in 1..Len(hrefs) |->
                              hrefs[i].has /\ hrefs[i].v # <<>> /\ ~StartsWithExcluded(hrefs[i].v)]),
            LAMBDA h : urljoin(u, h.v))

NoSite == [k |-> "none", url |-> <<>>, title |-> "", text |-> <<>>, links |-> <<>>]

\* a faulty variant of Website: the fields are not given their defaults before the try block
WebsiteNoDefaults(u, r) ==
    IF r.k = "ok"
    THEN [k |-> "obj", url |-> u, title |-> PageTitle(r.page), text |-> BodyText(r.page),
          links |-> ExtractLinks(u, r.page)]
    ELSE [k |-> "obj", url |-> u, title |-> PyNone, text |-> <<>>, links |-> <<>>]

\* Website.__init__(url), given what requests.get produced
Website(u, r) ==
    IF r.k = "ok"
    THEN [k |-> "obj", url |-> u, title |-> PageTitle(r.page), text |-> BodyText(r.page),
          links |-> ExtractLinks(u, r.page)]
    ELSE [k |-> "obj", url |-> u, title |-> DefaultTitle, text |-> <<>>, links |-> <<>>]

\* except requests.exceptions.RequestException: the errors the handler catches
CaughtByWebsite(e) == e \in RequestErrors \cup {"MissingSchema"}

\* the st.warning of the except block
WebsiteNotices(u, r) ==
    IF r.k = "error" /\ CaughtByWebsite(r.err)
    THEN <<Msg("warning", "Could not fetch website", u)>> ELSE <<>>

\* the exception that leaves Website.__init__, or "none"
WebsiteRaises(r) == IF r.k = "error" /\ ~CaughtByWebsite(r.err) THEN r.err ELSE "none"

\* Website.get_contents(): the title and the text as they are formatted
get_contents(w) == [title |-> IF w.title = PyNone THEN "None" ELSE w.title, text |-> w.text]

-----------------------------------------------------------------------------
(* Categories: str.title() *)

Lowers == <<"a", "b", "c", "d", "e", "f", "g", "h", "i", "j", "k", "l", "m",
            "n", "o", "p", "q", "r", "s", "t", "u", "v", "w", "x", "y", "z">>
Uppers == <<"A", "B", "C", "D", "E", "F", "G", "H", "I", "J", "K", "L", "M",
            "N", "O", "P", "Q", "R", "S", "T", "U", "V", "W", "X", "Y", "Z">>

IsLower(c) == \E i \in 1..Len(Lowers) : Lowers[i] = c
IsUpper(c) == \E i \in 1..Len(Uppers) : Uppers[i] = c
ToUpper(c) == IF IsLower(c) THEN Uppers[CHOOSE i \in 1..Len(Lowers) : Lowers[i] = c] ELSE c
ToLower(c) == IF IsUpper(c) THEN Lowers[CHOOSE i \in 1..Len(Uppers) : Uppers[i] = c] ELSE c

RECURSIVE TitleFrom(_, _)
TitleFrom(s, previousIsCased) ==
    IF s = <<>> THEN <<>>
    ELSE LET c == Head(s)
             cased == IsLower(c) \/ IsUpper(c)
         IN  <<IF ~cased THEN c
               ELSE IF previousIsCased THEN ToLower(c) ELSE ToUpper(c)>>
             \o TitleFrom(Tail(s), cased)

\* a faulty variant of str.title(): the category is used as written
TitleIdentity(s) == s

\* str.title()
Title(s) == TitleFrom(s, FALSE)

CatAbout == <<"A", "b", "o", "u", "t">>
CatAboutUs == <<"a", "b", "o", "u", "t", " ", "u", "s">>
CatDefault == <<"p", "a", "g", "e">>
LandingLabel == <<"L", "a", "n", "d", "i", "n", "g">>

-----------------------------------------------------------------------------
(* Values the classifier can return *)

Absent == [k |-> "absent", v |-> <<>>]
Null == [k |-> "null", v |-> <<>>]
Str(v) == [k |-> "str", v |-> v]

UrlAbout == <<"https:", "//", "acme.test", "/", "about">>
UrlCareers == <<"https:", "//", "acme.test", "/", "careers">>
UrlRelative == <<"/", "about">>

\* one entry of the "links" list: a JSON object with optional "type" and "url",
\* or a value that is no object
Item(obj, type, u) == [obj |-> obj, type |-> type, url |-> u]

ValidItems ==
    { Item(TRUE, Str(CatAbout), Str(UrlAbout)),
      Item(TRUE, Str(CatAboutUs), Str(UrlCareers)) }

Items ==
    ValidItems \cup
    { Item(TRUE, Absent, Str(UrlAbout)),
      Item(TRUE, Str(CatAbout), Str(<<>>)),
      Item(TRUE, Str(CatAbout), Absent),
      Item(TRUE, Str(CatAbout), Str(UrlRelative)),
      Item(TRUE, Null, Str(UrlAbout)),
      Item(FALSE, Absent, Absent) }

\* a Python value held by relevant_links
PyList(items) == [k |-> "list", items |-> items]
PyOther(k) == [k |-> k, items |-> <<>>]

LinksValues ==
    {PyList(l) : l \in SeqsUpTo(Items, MaxCands)} \cup {PyOther("None"), PyOther("str"), PyOther("int")}

NoResponse == [k |-> "none", json |-> "", hasLinks |-> FALSE, links |-> PyList(<<>>)]

\* what model.generate_content + response.text can produce
Responses ==
    { [k |-> "api_error", json |-> "", hasLinks |-> FALSE, links |-> PyList(<<>>)],
      [k |-> "text", json |-> "invalid", hasLinks |-> FALSE, links |-> PyList(<<>>)],
      [k |-> "text", json |-> "array", hasLinks |-> FALSE, links |-> PyList(<<>>)],
      [k |-> "text", json |-> "object", hasLinks |-> FALSE, links |-> PyList(<<>>)] }
    \cup
    { [k |-> "text", json |-> "object", hasLinks |-> TRUE, links |-> v] : v \in LinksValues }

-----------------------------------------------------------------------------
(* Specification of one Website construction *)

FetchUrls ==
    { <<"https:", "//", "acme.test">>,
      <<"https:", "//", "acme.test", "/", "team", "/", "us">>,
      <<"/", "about">> }

NoStream == [setup |-> TRUE, chunks |-> <<>>, fails |-> FALSE]

InitFetch ==
    /\ pc = "new"
    /\ url \in FetchUrls
    /\ company_name = ""
    /\ sink = <<>>
    /\ netlog = <<>>
    /\ raised = "none"
    /\ resp = NoResp
    /\ site = NoSite
    /\ response = NoResponse
    /\ relevant_links = <<>>
    /\ idx = 0
    /\ all_text = <<>>
    /\ gen = "none"
    /\ stream = NoStream
    /\ pos = 0
    /\ yielded = <<>>

\* Website(url)
Construct ==
    /\ pc = "new"
    /\ \E r \in HttpOutcomes(url, RequestErrors, Pages) :
        /\ resp' = r
        /\ site' = Website(url, r)
        /\ sink' = sink \o WebsiteNotices(url, r)
        /\ raised' = WebsiteRaises(r)
    /\ netlog' = Append(netlog, NetOp("fetch", url))
    /\ pc' = "constructed"
    /\ UNCHANGED <<company_name, url, response, relevant_links, idx, all_text,
                   gen, stream, pos, yielded>>

NextFetch == Construct

SpecFetch == InitFetch /\ [][NextFetch]_vars

-----------------------------------------------------------------------------
(* get_relevant_links *)

EmptyList == PyList(<<>>)

\* the value get_relevant_links returns: result_json.get("links", []) when
\* json.loads gave an object, [] from the except block otherwise
ClassifierValue(r) ==
    IF r.k = "text" /\ r.json = "object" /\ r.hasLinks THEN r.links ELSE EmptyList

\* whether the try block of get_relevant_links ends in the except block:
\* generate_content / response.text raised, json.loads raised, or the parsed
\* value has no .get
ClassifierFails(r) == r.k = "api_error" \/ r.json \in {"invalid", "array"}

\* the notifications of get_relevant_links, in order; st.success precedes
\* result_json.get, so a top-level array reports success and then the error
ClassifierNotices(u, r) ==
    <<Msg("info", "AI is analyzing links", u)>>
    \o (IF r.k = "text" /\ r.json # "invalid"
        THEN <<Msg("success", "AI analysis complete. Found relevant links.", <<>>)>> ELSE <<>>)
    \o (IF ClassifierFails(r)
        THEN <<Msg("error", "An error occurred during AI link analysis", <<>>)>> ELSE <<>>)

-----------------------------------------------------------------------------
(* get_all_details *)

\* truth value of a Python value: None and the empty list are false
Truthy(v) == IF v.k = "list" THEN v.items # <<>> ELSE v.k # "None"

Section(label, u, contents) ==
    [label |-> label, url |-> u, title |-> contents.title, text |-> contents.text]

\* a faulty variant of ShouldScrape: only absolute URLs are scraped
ShouldScrapeAbsolute(item) == item.url.k = "str" /\ HasSchemeAndHost(item.url.v)

\* a faulty variant of ShouldScrape: a URL already fetched is not fetched again
ShouldScrapeOnce(item) ==
    /\ item.url.k = "str" /\ item.url.v # <<>>
    /\ \A i \in 1..Len(netlog) : netlog[i] # NetOp("fetch", item.url.v)

\* if link_url:
ShouldScrape(item) == item.url.k = "str" /\ item.url.v # <<>>

\* link_info.get("type", "page")
LinkType(item) == IF item.type.k = "absent" THEN Str(CatDefault) ELSE item.type

\* link_type.title(), the label of the block appended for the item
SectionLabel(item) == Title(LinkType(item).v)

\* the sub-page outcomes enumerated in a full run
SamplePages ==
    { [title |-> [k |-> "str", v |-> "Acme Inc"], hasBody |-> TRUE,
       nodes |-> <<Node("a", "div", "link", Href(<<"/", "about">>)),
                   Node("p", "div", "Hello", NoHref)>>],
      EmptyPage }

SampleErrors == {"Timeout"}

-----------------------------------------------------------------------------
(* stream_brochure *)

ChunkTexts == {"", "# Acme"}

\* what the model call can do: generate_content(stream=True) raises (setup
\* FALSE), or it returns a stream that delivers chunks and then ends or raises;
\* a chunk whose .text raises counts as the stream raising at that chunk
Streams ==
    [setup : {TRUE}, chunks : SeqsUpTo(ChunkTexts, MaxChunks), fails : BOOLEAN]
    \cup {[setup |-> FALSE, chunks |-> <<>>, fails |-> TRUE]}

-----------------------------------------------------------------------------
(* Specification of run_app *)

RequestUrls ==
    { <<>>,
      <<"acme.test">>,
      <<"https:", "//">>,
      <<"https:", "acme.test">>,
      <<"https:", "//", "acme.test">> }

CompanyNames == {"", "Acme"}

Init ==
    /\ pc = "start"
    /\ company_name = ""
    /\ url = <<>>
    /\ sink = <<>>
    /\ netlog = <<>>
    /\ raised = "none"
    /\ resp = NoResp
    /\ site = NoSite
    /\ response = NoResponse
    /\ relevant_links = EmptyList
    /\ idx = 0
    /\ all_text = <<>>
    /\ gen = "none"
    /\ stream = NoStream
    /\ pos = 0
    /\ yielded = <<>>

\* configure_api(). The else branch assigns no api_key, so reading it raises.
configure_api ==
    /\ pc = "start"
    /\ \E secret \in {"absent", "empty", "set"}, configured \in BOOLEAN :
          CASE secret = "absent" ->
                 /\ raised' = "UnboundLocalError"
                 /\ pc' = "crashed"
                 /\ sink' = sink
            [] secret = "empty" ->
                 /\ sink' = sink \o <<Msg("info", "Configuring API using key from Streamlit secrets.", <<>>),
                                      Msg("error", "GEMINI_API_KEY not found", <<>>)>>
                 /\ pc' = "stopped"
                 /\ raised' = raised
            [] OTHER ->
                 /\ sink' = sink \o <<Msg("info", "Configuring API using key from Streamlit secrets.", <<>>)>>
                               \o (IF configured THEN <<>>
                                   ELSE <<Msg("error", "Failed to configure Gemini API", <<>>)>>)
                 /\ pc' = IF configured THEN "form" ELSE "stopped"
                 /\ raised' = raised
    /\ UNCHANGED <<company_name, url, netlog, resp, site, response, relevant_links,
                   idx, all_text, gen, stream, pos, yielded>>

\* a faulty variant of ValidRequest: the URL is only required to be non-empty
ValidRequestNonEmpty(name, u) == name # "" /\ u # <<>>

\* the input validation of run_app
ValidRequest(name, u) == name # "" /\ u # <<>> /\ HasSchemeAndHost(u)

\* the sidebar form and the validation that follows a click on "Generate Brochure"
Submit ==
    /\ pc = "form"
    /\ \E name \in CompanyNames, u \in RequestUrls, generate_button \in BOOLEAN :
        /\ company_name' = name
        /\ url' = u
        /\ IF ~generate_button THEN pc' = "idle" /\ sink' = sink
           ELSE IF name = "" \/ u = <<>>
           THEN /\ sink' = Append(sink, Msg("warning", "Please enter both a company name and a URL.", <<>>))
                /\ pc' = "stopped"
           ELSE IF ~ValidRequest(name, u)
           THEN /\ sink' = Append(sink, Msg("warning", "Please enter a valid, full URL", <<>>))
                /\ pc' = "stopped"
           ELSE /\ sink' = sink
                /\ pc' = "landing"
    /\ UNCHANGED <<netlog, raised, resp, site, response, relevant_links, idx,
                   all_text, gen, stream, pos, yielded>>

\* get_all_details, step 1: the landing page and the first block of all_text
ScrapeLanding ==
    /\ pc = "landing"
    /\ \E r \in HttpOutcomes(url, SampleErrors, SamplePages) :
        /\ resp' = r
        /\ site' = Website(url, r)
        /\ netlog' = Append(netlog, NetOp("fetch", url))
        /\ sink' = sink \o <<Msg("info", "Step 1: Scraping landing page...", <<>>)>>
                        \o WebsiteNotices(url, r)
        /\ IF WebsiteRaises(r) = "none"
           THEN /\ all_text' = <<Section(LandingLabel, url, get_contents(Website(url, r)))>>
                /\ pc' = "classify"
                /\ raised' = raised
           ELSE /\ all_text' = all_text
                /\ pc' = "crashed"
                /\ raised' = WebsiteRaises(r)
    /\ UNCHANGED <<company_name, url, response, relevant_links, idx, gen, stream, pos, yielded>>

\* get_all_details, step 2: get_relevant_links(main_site) and the
\* "if not relevant_links" test
GetRelevantLinks ==
    /\ pc = "classify"
    /\ \E r \in Responses :
        /\ response' = r
        /\ relevant_links' = ClassifierValue(r)
        /\ netlog' = Append(netlog, NetOp("classify", site.url))
        /\ sink' = sink \o <<Msg("info", "Step 2: Finding and scraping relevant sub-pages...", <<>>)>>
                        \o ClassifierNotices(site.url, r)
                        \o (IF Truthy(ClassifierValue(r)) THEN <<>>
                            ELSE <<Msg("warning", "No relevant sub-pages found by AI.", <<>>)>>)
        /\ pc' = IF Truthy(ClassifierValue(r)) THEN "loop" ELSE "aggregated"
    /\ idx' = 1
    /\ UNCHANGED <<company_name, url, raised, resp, site, all_text, gen, stream, pos, yielded>>

\* one iteration of "for link_info in relevant_links"
ScrapeSubPage ==
    /\ pc = "loop"
    /\ IF relevant_links.k # "list"
       THEN \* an int is not iterable; the elements of a str have no .get
            /\ raised' = IF relevant_links.k = "int" THEN "TypeError" ELSE "AttributeError"
            /\ pc' = "crashed"
            /\ UNCHANGED <<sink, netlog, resp, site, all_text, idx>>
       ELSE LET item == relevant_links.items[idx]
                last == idx = Len(relevant_links.items)
            IN  IF ~item.obj
                THEN /\ raised' = "AttributeError"
                     /\ pc' = "crashed"
                     /\ UNCHANGED <<sink, netlog, resp, site, all_text, idx>>
                ELSE IF ~ShouldScrape(item)
                THEN /\ idx' = idx + 1
                     /\ pc' = IF last THEN "aggregated" ELSE "loop"
                     /\ UNCHANGED <<sink, netlog, resp, site, all_text, raised>>
                ELSE \E r \in HttpOutcomes(item.url.v, SampleErrors, SamplePages) :
                     /\ resp' = r
                     /\ site' = Website(item.url.v, r)
                     /\ netlog' = Append(netlog, NetOp("fetch", item.url.v))
                     /\ sink' = sink \o <<Msg("info", "Scraping page", item.url.v)>>
                                     \o WebsiteNotices(item.url.v, r)
                     /\ IF WebsiteRaises(r) # "none"
                        THEN /\ raised' = WebsiteRaises(r)
                             /\ pc' = "crashed"
                             /\ UNCHANGED <<all_text, idx>>
                        ELSE IF LinkType(item).k = "null"
                        THEN \* None has no .title
                             /\ raised' = "AttributeError"
                             /\ pc' = "crashed"
                             /\ UNCHANGED <<all_text, idx>>
                        ELSE /\ all_text' = Append(all_text,
                                    Section(SectionLabel(item), item.url.v,
                                            get_contents(Website(item.url.v, r))))
                             /\ idx' = idx + 1
                             /\ pc' = IF last THEN "aggregated" ELSE "loop"
                             /\ raised' = raised
    /\ UNCHANGED <<company_name, url, response, relevant_links, gen, stream, pos, yielded>>

\* st.write_stream(stream_brochure(company_name, all_text, tone)): the generator
\* object is created; nothing of its body has run yet
write_stream ==
    /\ pc = "aggregated"
    /\ pc' = "streaming"
    /\ gen' = "created"
    /\ UNCHANGED <<company_name, url, sink, netlog, raised, resp, site, response,
                   relevant_links, idx, all_text, stream, pos, yielded>>

GenError == Msg("error", "An error occurred during brochure generation", <<>>)

\* a faulty variant of PullChunk: the except block reports the error and returns
\* without yielding ""
PullChunkNoSentinel(s) ==
    /\ netlog' = IF gen = "created"
                 THEN netlog \o <<NetOp("generate", <<>>), NetOp("next_chunk", <<>>)>>
                 ELSE Append(netlog, NetOp("next_chunk", <<>>))
    /\ IF pos < Len(s.chunks)
       THEN /\ pos' = pos + 1
            /\ yielded' = Append(yielded, s.chunks[pos + 1])
            /\ gen' = "suspended"
            /\ sink' = sink
       ELSE IF s.fails
       THEN /\ gen' = "done"
            /\ sink' = Append(sink, GenError)
            /\ UNCHANGED <<yielded, pos>>
       ELSE /\ gen' = "done"
            /\ UNCHANGED <<yielded, sink, pos>>

\* a faulty variant of PullChunk: the whole stream is collected before anything is yielded
PullChunkBuffered(s) ==
    /\ netlog' = IF gen = "created"
                 THEN netlog \o <<NetOp("generate", <<>>), NetOp("next_chunk", <<>>)>>
                 ELSE Append(netlog, NetOp("next_chunk", <<>>))
    /\ IF pos < Len(s.chunks)
       THEN /\ pos' = Len(s.chunks)
            /\ yielded' = Append(yielded, s.chunks[pos + 1])
            /\ gen' = "suspended"
            /\ sink' = sink
       ELSE IF s.fails
       THEN /\ yielded' = Append(yielded, "")
            /\ gen' = "failed"
            /\ sink' = Append(sink, GenError)
            /\ pos' = pos
       ELSE /\ gen' = "done"
            /\ UNCHANGED <<yielded, sink, pos>>

\* the generator resumes in "for chunk in stream": the next chunk is requested
\* from the model and yielded, or the stream ends, or an error reaches the
\* except block, which yields "" once
PullChunk(s) ==
    /\ netlog' = IF gen = "created"
                 THEN netlog \o <<NetOp("generate", <<>>), NetOp("next_chunk", <<>>)>>
                 ELSE Append(netlog, NetOp("next_chunk", <<>>))
    /\ IF pos < Len(s.chunks)
       THEN /\ pos' = pos + 1
            /\ yielded' = Append(yielded, s.chunks[pos + 1])
            /\ gen' = "suspended"
            /\ sink' = sink
       ELSE IF s.fails
       THEN /\ yielded' = Append(yielded, "")
            /\ gen' = "failed"
            /\ sink' = Append(sink, GenError)
            /\ pos' = pos
       ELSE /\ gen' = "done"
            /\ UNCHANGED <<yielded, sink, pos>>

\* one next() of the consumer on the generator of stream_brochure: the first
\* one runs the body up to the first yield, a later one resumes after the
\* yield it is suspended at
StreamNext ==
    /\ pc = "streaming"
    /\ CASE gen = "created" ->
              \E s \in Streams :
                 /\ stream' = s
                 /\ IF s.setup
                    THEN PullChunk(s)
                    ELSE \* generate_content raises: the except block yields ""
                         /\ netlog' = Append(netlog, NetOp("generate", <<>>))
                         /\ sink' = Append(sink, GenError)
                         /\ yielded' = Append(yielded, "")
                         /\ gen' = "failed"
                         /\ pos' = pos
         [] gen = "suspended" -> PullChunk(stream) /\ stream' = stream
         [] gen = "failed" -> gen' = "done" /\ UNCHANGED <<netlog, sink, yielded, stream, pos>>
         [] OTHER -> FALSE
    /\ UNCHANGED <<pc, company_name, url, raised, resp, site, response,
                   relevant_links, idx, all_text>>

\* the generator is exhausted: st.success("Brochure generation complete!")
Complete ==
    /\ pc = "streaming"
    /\ gen = "done"
    /\ pc' = "end"
    /\ sink' = Append(sink, Msg("success", "Brochure generation complete!", <<>>))
    /\ UNCHANGED <<company_name, url, netlog, raised, resp, site, response,
                   relevant_links, idx, all_text, gen, stream, pos, yielded>>

Next ==
    \/ configure_api
    \/ Submit
    \/ ScrapeLanding
    \/ GetRelevantLinks
    \/ ScrapeSubPage
    \/ write_stream
    \/ StreamNext
    \/ Complete

Spec == Init /\ [][Next]_vars

-----------------------------------------------------------------------------
(* Properties *)

InSink(level, text) == \E i \in 1..Len(sink) : sink[i].level = level /\ sink[i].text = text

CountOps(op) == Cardinality({i \in 1..Len(netlog) : netlog[i].op = op})

IsPrefix(a, b) == Len(a) <= Len(b) /\ SubSeq(b, 1, Len(a)) = a

\* the items of the returned list; no items when the value is not a list
ReturnedItems == IF relevant_links.k = "list" THEN relevant_links.items ELSE <<>>

HasUrl(item) == item.obj /\ item.url.k = "str" /\ item.url.v # <<>>

AbsoluteUrl(item) ==
    /\ item.obj
    /\ item.url.k = "str"
    /\ Len(item.url.v) >= 3
    /\ item.url.v[1] = "https:" /\ item.url.v[2] = "//" /\ item.url.v[3] \in HostTokens

\* the URLs of the items, among the first n, for which P holds, in order
UrlsOf(n, P(_)) ==
    LET its == SubSeq(ReturnedItems, 1, n)
    IN  Map(Filter(its, [i \in 1..Len(its) |-> P(its[i])]), LAMBDA it : it.url.v)

SectionUrls == [i \in 1..(Len(all_text) - 1) |-> all_text[i + 1].url]

SubFetchUrls ==
    LET ops == Filter(netlog, [i \in 1..Len(netlog) |-> i > 2 /\ netlog[i].op = "fetch"])
    IN  Map(ops, LAMBDA o : o.url)

Returned == pc \in {"aggregated", "streaming", "end"}

\* C1: once get_all_details has been entered it never raises, and what it
\* builds has at least one section, the first being the landing page.
C1_AlwaysLandingFirst ==
    netlog # <<>> =>
        /\ pc # "crashed"
        /\ Len(all_text) >= 1
        /\ all_text[1].label = LandingLabel
        /\ all_text[1].url = url

\* C2: a failed fetch leaves the Website with the default title, an empty
\* body and no links, raises nothing and is reported as a warning.
C2_FailedFetchIsEmptyPage ==
    (pc = "constructed" /\ resp.k = "error") =>
        /\ site.title = "No title found"
        /\ site.text = <<>>
        /\ site.links = <<>>
        /\ raised = "none"
        /\ sink = <<Msg("warning", "Could not fetch website", url)>>

C2_Witness ==
    pc = "constructed" /\ resp.k = "error" /\ resp.err = "Timeout" /\ site.title = "No title found"

\* the generator has met an error: the model call raised, or the stream
\* raised when the chunk after its last one was requested
StreamErrorHit ==
    /\ stream.fails
    /\ \/ ~stream.setup /\ CountOps("generate") = 1
       \/ stream.setup /\ CountOps("next_chunk") = Len(stream.chunks) + 1

C3_State ==
    /\ gen # "none" => raised = "none"
    /\ StreamErrorHit =>
          /\ gen \in {"failed", "done"}
          /\ yielded = Append(stream.chunks, "")
          /\ Cardinality({i \in 1..Len(sink) : sink[i] = GenError}) = 1
    /\ ~StreamErrorHit => ~InSink("error", GenError.text)

C3_Step ==
    StreamErrorHit => (gen' = "done" /\ yielded' = yielded /\ raised' = raised)

\* C3: stream_brochure never raises; after an error in the model call or in
\* the stream it has yielded the chunks received so far and then exactly one
\* "", the error is reported once, and its next step is to finish without
\* yielding anything more.
C3_ErrorYieldsOneEmptyFragment == [](C3_State) /\ [][C3_Step]_vars

C3_Witness ==
    /\ gen = "done"
    /\ stream.setup /\ stream.fails
    /\ Len(stream.chunks) = 2
    /\ yielded = Append(stream.chunks, "")

\* every sub-page fetch so far succeeded
SubFetchesSucceeded ==
    \A i \in 1..Len(sink) : sink[i].text = "Could not fetch website" => sink[i].arg = url

ValidCandidate(item) == AbsoluteUrl(item) /\ item.type.k = "str"

AllValid == \A i \in 1..Len(ReturnedItems) : ValidCandidate(ReturnedItems[i])

\* the title-cased form of the categories the model uses
TitleCased(cat) ==
    IF cat = CatAboutUs THEN <<"A", "b", "o", "u", "t", " ", "U", "s">> ELSE cat

C4_Counts ==
    /\ (Returned /\ relevant_links = EmptyList) => Len(all_text) = 1
    /\ (Returned /\ relevant_links.k = "list" /\ AllValid /\ SubFetchesSucceeded) =>
          /\ Len(all_text) = Len(ReturnedItems) + 1
          /\ all_text[1].label = LandingLabel

\* C4 as claimed: an empty classifier result gives 1 section; N valid
\* candidates whose fetches succeed give N+1 sections, the landing page and
\* then one per candidate in order, each labelled with the candidate's category.
C4_LabelIsCategory ==
    /\ C4_Counts
    /\ (Returned /\ relevant_links.k = "list" /\ AllValid /\ SubFetchesSucceeded) =>
          \A i \in 1..Len(ReturnedItems) :
              /\ all_text[i + 1].url = ReturnedItems[i].url.v
              /\ all_text[i + 1].label = ReturnedItems[i].type.v

\* C4 as amended: the same, each section labelled with the candidate's
\* category in title case.
C4_LabelIsTitleCasedCategory ==
    /\ C4_Counts
    /\ (Returned /\ relevant_links.k = "list" /\ AllValid /\ SubFetchesSucceeded) =>
          \A i \in 1..Len(ReturnedItems) :
              /\ all_text[i + 1].url = ReturnedItems[i].url.v
              /\ all_text[i + 1].label = TitleCased(ReturnedItems[i].type.v)

C4_Witness ==
    /\ pc = "aggregated"
    /\ relevant_links.k = "list" /\ AllValid /\ SubFetchesSucceeded
    /\ Len(ReturnedItems) = 2
    /\ ReturnedItems[1].type.v = CatAboutUs
    /\ ReturnedItems[2].type.v = CatAbout
    /\ Len(all_text) = 3

\* the response is no object holding a list of {type, url} pairs
ClassificationError ==
    \/ response.k = "api_error"
    \/ /\ response.k = "text"
       /\ \/ response.json # "object"
          \/ ~response.hasLinks
          \/ response.links.k # "list"
          \/ \E i \in 1..Len(response.links.items) :
                LET it == response.links.items[i]
                IN  ~(it.obj /\ it.type.k = "str" /\ it.url.k = "str")

\* C5: after a classification error get_relevant_links has returned an empty
\* sequence and reported the error, nothing is raised, and the aggregation
\* ends with the landing-page section only.
C5_ClassificationErrorDegrades ==
    ClassificationError =>
        /\ relevant_links = EmptyList
        /\ InSink("error", "An error occurred during AI link analysis")
        /\ pc # "crashed"
        /\ Returned => Len(all_text) = 1

InvalidRequest ==
    \/ company_name = ""
    \/ url = <<>>
    \/ ~(Len(url) >= 1 /\ url[1] = "https:")
    \/ ~(Len(url) >= 3 /\ url[2] = "//" /\ url[3] \in HostTokens)

C7_NonAbsoluteIgnored ==
    \A i \in 1..Len(ReturnedItems) :
        (ReturnedItems[i].obj /\ ~AbsoluteUrl(ReturnedItems[i])) =>
            /\ \A j \in 1..Len(SubFetchUrls) : SubFetchUrls[j] # ReturnedItems[i].url.v
            /\ \A j \in 1..Len(SectionUrls) : SectionUrls[j] # ReturnedItems[i].url.v

\* C7 as amended: the candidates whose url is missing or empty are the ones
\* ignored. The sections after the landing page are those of the candidates
\* handled so far that have a non-empty url, in order, and so are the fetches
\* (plus the fetch of the candidate at which the loop raised, if any).
C7_MissingOrEmptyUrlIgnored ==
    LET done == IF pc = "loop" \/ pc = "crashed" THEN idx - 1 ELSE Len(ReturnedItems)
        handled == UrlsOf(done, HasUrl)
    IN  (idx >= 1 /\ relevant_links.k = "list") =>
            /\ SectionUrls = handled
            /\ \/ SubFetchUrls = handled
               \/ /\ pc = "crashed"
                  /\ HasUrl(ReturnedItems[idx])
                  /\ SubFetchUrls = Append(handled, ReturnedItems[idx].url.v)

C7_Witness ==
    /\ pc = "aggregated"
    /\ Len(ReturnedItems) = 2
    /\ ReturnedItems[1].obj /\ ReturnedItems[1].url = Str(<<>>)
    /\ ReturnedItems[2].obj /\ ReturnedItems[2].url = Str(UrlRelative)
    /\ SubFetchUrls = <<UrlRelative>>
    /\ Len(all_text) = 2

\* the anchors of the fetched page, in document order, whose href is present
\* and is no in-page anchor, mailto: or tel: link
ClaimedHrefs ==
    LET ns == resp.page.nodes
        anchors == Filter(ns, [i \in 1..Len(ns) |-> ns[i].tag = "a"])
    IN  Filter(anchors, [i \in 1..Len(anchors) |->
                  /\ anchors[i].href.has
                  /\ anchors[i].href.v # <<>>
                  /\ anchors[i].href.v[1] \notin {"#", "mailto:", "tel:"}])

\* C8: the links of a fetched page are the hrefs of its anchors, in document
\* order, without the missing ones and the #, mailto: and tel: ones, each
\* resolved against the page's URL.
C8_LinksAreAllAnchors ==
    (pc = "constructed" /\ resp.k = "ok") =>
        site.links = Map(ClaimedHrefs, LAMBDA a : urljoin(url, a.href.v))

C9_State ==
    /\ pos <= Len(yielded)
    /\ pos <= Len(stream.chunks)
    /\ \A i \in 1..pos : yielded[i] = stream.chunks[i]
    /\ Len(yielded) <= pos + 1
    /\ Len(yielded) = pos + 1 => (yielded[pos + 1] = "" /\ StreamErrorHit)
    /\ CountOps("next_chunk") <= Len(yielded) + 1
    /\ CountOps("next_chunk") \in {pos, pos + 1}

C9_Step ==
    /\ gen = "done" => (gen' = "done" /\ yielded' = yielded)
    /\ CountOps("next_chunk")' > CountOps("next_chunk") => pos = Len(yielded)

\* C9: the fragments yielded are the chunks received, in order of arrival; a
\* chunk is requested from the model only when every chunk received before
\* has been yielded; once the generator is done it stays done and yields
\* nothing more.
C9_IncrementalSinglePass == [](C9_State) /\ [][C9_Step]_vars

C9_Witness ==
    /\ pc = "end"
    /\ gen = "done"
    /\ Len(stream.chunks) = 2
    /\ yielded = stream.chunks

\* the order the calls of one request are made in: the landing page, the
\* classification, one fetch per candidate that has a url, in the order
\* returned, then the generation call and the chunk requests
ExpectedCalls ==
    <<NetOp("fetch", url), NetOp("classify", url)>>
    \o Map(UrlsOf(Len(ReturnedItems), HasUrl), LAMBDA u : NetOp("fetch", u))
    \o <<NetOp("generate", <<>>)>>
    \o [i \in 1..CountOps("next_chunk") |-> NetOp("next_chunk", <<>>)]

\* C10: the calls made so far are an initial part of that order, and the
\* generation call is made only when every fetch has been.
C10_CallsInFixedOrder ==
    /\ IsPrefix(netlog, ExpectedCalls)
    /\ CountOps("generate") = 1 => netlog = ExpectedCalls

C10_Witness ==
    /\ pc = "end"
    /\ Len(ReturnedItems) = 2
    /\ ReturnedItems[1].url = Str(UrlAbout) /\ ReturnedItems[2].url = Str(UrlAbout)
    /\ SubFetchUrls = <<UrlAbout, UrlAbout>>
    /\ CountOps("generate") = 1

====
